---- MODULE Spec2Model ----
(***************************************************************************)
(* Model of app.py, the Streamlit front end of the DAG script generator:   *)
(* st.session_state, the sidebar handlers (refresh, load, clear) and the   *)
(* validate -> generate protocol of one chat turn.                         *)
(*                                                                         *)
(* Python values are tagged records, so that None, booleans, numbers and   *)
(* strings stay distinct; a Python str is a sequence of one-character      *)
(* strings, so that the substring test "def " in content is computed.      *)
(* The "timestamp" key of a message is left out: no line of app.py reads   *)
(* it.                                                                     *)
(***************************************************************************)
EXTENDS Integers, Sequences, FiniteSets, TLC

VARIABLES session_state, uuid_count, pc, user_input, response, dag_response,
          sent, appended, turn_sid, fault, event

vars == <<session_state, uuid_count, pc, user_input, response, dag_response,
          sent, appended, turn_sid, fault, event>>

(***************************************************************************)
(* Bounds of the model.                                                    *)
(***************************************************************************)
MaxMsgs == 4
MaxUuid == 3

(***************************************************************************)
(* Python values.                                                          *)
(***************************************************************************)
None == [t |-> "None"]
Str(s) == [t |-> "str", s |-> s]
Bool(b) == [t |-> "bool", b |-> b]
Num(n) == [t |-> "num", n |-> n]

\* bool(v): Python truthiness, as used by "if v:" and "v or default".
Truthy(v) ==
    CASE v.t = "bool" -> v.b
      [] v.t = "num" -> v.n # 0
      [] v.t = "str" -> v.s # <<>>
      [] OTHER -> FALSE

\* sub in s, for two Python strings.
Contains(sub, s) ==
    \E i \in 1..(Len(s) - Len(sub) + 1) : SubSeq(s, i, i + Len(sub) - 1) = sub

DefMarker == <<"d", "e", "f", " ">>

\* dict.get(key): None when the key is missing.
Get(d, k) == IF k \in DOMAIN d THEN d[k] ELSE None

EmptyDict == [k \in {} |-> None]

(***************************************************************************)
(* The fixed notices of main().                                            *)
(***************************************************************************)
BackendErrorNotice ==
    <<"B", "a", "c", "k", "e", "n", "d", " ", "e", "r", "r", "o", "r", " ",
      "w", "h", "i", "l", "e", " ", "v", "a", "l", "i", "d", "a", "t", "i",
      "n", "g", " ", "i", "n", "p", "u", "t", ".">>
GenerationFailedNotice ==
    <<"F", "a", "i", "l", "e", "d", " ", "t", "o", " ", "g", "e", "n", "e",
      "r", "a", "t", "e", " ", "D", "A", "G", " ", "s", "c", "r", "i", "p",
      "t", ".">>
InvalidInputNotice ==
    <<"I", "n", "v", "a", "l", "i", "d", " ", "i", "n", "p", "u", "t", ".",
      " ", "P", "l", "e", "a", "s", "e", " ", "t", "r", "y", " ", "a", "g",
      "a", "i", "n", ".">>

(***************************************************************************)
(* Messages and HTTP responses.                                            *)
(***************************************************************************)
Message(type, content) == [message_type |-> Str(type), content |-> Str(content)]
UserType == <<"u", "s", "e", "r">>
SystemType == <<"s", "y", "s", "t", "e", "m">>
UserMsg(c) == Message(UserType, c)
SystemMsg(c) == Message(SystemType, c)

\* requests.get / requests.post either raises or returns a response whose
\* json() either raises (the body is not JSON) or returns a dict.
RaisedException == [kind |-> "exception"]
Malformed == [kind |-> "malformed"]
Json(d) == [kind |-> "json", data |-> d]
Http(status, body) == [kind |-> "http", status_code |-> status, body |-> body]
NoResponse == [kind |-> "none"]

JsonRaises(r) == r.body.kind = "malformed"

(***************************************************************************)
(* The inputs of the model: what the user types and what the backend may   *)
(* answer.                                                                 *)
(***************************************************************************)
ScriptDef == <<"d", "e", "f", " ", "f">>
ScriptPlain == <<"x">>
TextHi == <<"h", "i">>
TextDefG == <<"d", "e", "f", " ", "g">>
TextNo == <<"n", "o">>
TextADefB == <<"a", " ", "d", "e", "f", " ", "b">>
ScriptP == <<"d", "e", "f", " ", "p">>

UserInputs == {TextDefG}

ValidateResponses ==
    { RaisedException,
      Http(500, Malformed),
      Http(200, Malformed),
      Http(200, Json(EmptyDict)),
      Http(200, Json([valid |-> Bool(TRUE)])),
      Http(200, Json([valid |-> Num(1)])),
      Http(200, Json([valid |-> Bool(FALSE)])),
      Http(200, Json([valid |-> Bool(FALSE), feedback |-> Str(<<>>)])),
      Http(200, Json([valid |-> Bool(FALSE), feedback |-> Str(TextNo)])),
      Http(200, Json([valid |-> Bool(FALSE), feedback |-> Str(TextADefB)])) }

GenerateResponses ==
    { RaisedException,
      Http(500, Malformed),
      Http(200, Malformed),
      Http(200, Json(EmptyDict)),
      Http(200, Json([dag_script |-> Str(ScriptDef)])),
      Http(200, Json([dag_script |-> Str(ScriptPlain)])),
      Http(200, Json([dag_script |-> Str(<<>>)])) }

StoreLogs ==
    { <<>>,
      <<SystemMsg(ScriptP), UserMsg(TextHi), UserMsg(TextDefG)>>,
      <<SystemMsg(ScriptP), SystemMsg(TextNo)>>,
      <<SystemMsg(ScriptDef), SystemMsg(ScriptP)>>,
      <<UserMsg(TextDefG)>>,
      <<[message_type |-> Str(SystemType)]>>,
      <<[content |-> Str(TextNo)], SystemMsg(ScriptP)>> }

LoadResponses ==
    { RaisedException,
      Http(500, Malformed),
      Http(200, Malformed),
      Http(200, Json([success |-> Bool(FALSE)])),
      Http(200, Json([success |-> Bool(TRUE)])) }
    \cup { Http(200, Json([success |-> Bool(TRUE), messages |-> m])) : m \in StoreLogs }

IdA == Str(<<"a">>)
IdEmpty == Str(<<>>)

\* str(uuid.uuid4()): the n-th identifier drawn; two draws never agree.
uuid4(n) == Str(<<"u", "u", "i", "d", ToString(n)>>)

StoreLists ==
    { <<>>,
      <<[session_id |-> IdA, title |-> Str(TextHi)], [session_id |-> uuid4(1)]>>,
      <<[session_id |-> IdEmpty]>> }

ListResponses ==
    { RaisedException,
      Http(500, Malformed),
      Http(200, Malformed),
      Http(200, Json([success |-> Bool(FALSE)])),
      Http(200, Json([success |-> Bool(TRUE)])) }
    \cup { Http(200, Json([success |-> Bool(TRUE), conversations |-> h])) : h \in StoreLists }

(***************************************************************************)
(* st.session_state is a dict: a key is set iff it is in the DOMAIN.       *)
(***************************************************************************)
SetDefault(ss, k, v) == IF k \in DOMAIN ss THEN ss ELSE (k :> v) @@ ss

\* An init that assigns the message log unconditionally.
init_session_resets(ss, u) ==
    ("messages" :> <<>>) @@
    SetDefault(SetDefault(SetDefault(SetDefault(ss,
        "session_id", u),
        "history", <<>>),
        "active_session", None),
        "generated_dag", None)

\* init_session(): each key is set only when it is missing.
init_session(ss, u) ==
    SetDefault(SetDefault(SetDefault(SetDefault(SetDefault(ss,
        "session_id", u),
        "messages", <<>>),
        "history", <<>>),
        "active_session", None),
        "generated_dag", None)

Initialized == "session_id" \in DOMAIN session_state

\* The session state and the uuid counter once main() has called
\* init_session() at the top of a run.
SS0 == init_session(session_state, uuid4(uuid_count + 1))
Count0 == IF Initialized THEN uuid_count ELSE uuid_count + 1

\* A fetch that empties the cached list when the backend answers non-200.
fetch_all_conversations_clears(ss, r) ==
    IF r.kind = "exception" THEN ss
    ELSE IF r.status_code # 200 THEN [ss EXCEPT !.history = <<>>]
    ELSE IF JsonRaises(r) THEN ss
    ELSE IF ~Truthy(Get(r.body.data, "success")) THEN ss
    ELSE IF "conversations" \notin DOMAIN r.body.data THEN ss
    ELSE [ss EXCEPT !.history = r.body.data.conversations]

\* fetch_all_conversations(): the cached list is replaced only by a 200
\* response whose body has a truthy "success" and a "conversations" key;
\* every exception is caught by the handler.
fetch_all_conversations(ss, r) ==
    IF r.kind = "exception" THEN ss
    ELSE IF r.status_code # 200 THEN ss
    ELSE IF JsonRaises(r) THEN ss
    ELSE IF ~Truthy(Get(r.body.data, "success")) THEN ss
    ELSE IF "conversations" \notin DOMAIN r.body.data THEN ss
    ELSE [ss EXCEPT !.history = r.body.data.conversations]

\* A scan that walks the log oldest first and so returns the oldest match.
RECURSIVE ForwardScanFrom(_, _, _)
ForwardScanFrom(msgs, j, i) ==
    IF j > i THEN [raised |-> FALSE, dag |-> None]
    ELSE IF "message_type" \notin DOMAIN msgs[j] THEN [raised |-> TRUE, dag |-> None]
    ELSE IF msgs[j].message_type # Str(SystemType) THEN ForwardScanFrom(msgs, j + 1, i)
    ELSE IF "content" \notin DOMAIN msgs[j] THEN [raised |-> TRUE, dag |-> None]
    ELSE IF Contains(DefMarker, msgs[j].content.s)
         THEN [raised |-> FALSE, dag |-> msgs[j].content]
         ELSE ForwardScanFrom(msgs, j + 1, i)

ReverseScan_forward(msgs, i) == ForwardScanFrom(msgs, 1, i)

\* The loop of load_conversation(), from index i down to 1: the content of
\* the first system message containing "def ", None when there is none, and
\* raised when a visited message lacks a key the loop reads.
RECURSIVE ReverseScan(_, _)
ReverseScan(msgs, i) ==
    IF i = 0 THEN [raised |-> FALSE, dag |-> None]
    ELSE IF "message_type" \notin DOMAIN msgs[i] THEN [raised |-> TRUE, dag |-> None]
    ELSE IF msgs[i].message_type # Str(SystemType) THEN ReverseScan(msgs, i - 1)
    ELSE IF "content" \notin DOMAIN msgs[i] THEN [raised |-> TRUE, dag |-> None]
    ELSE IF Contains(DefMarker, msgs[i].content.s)
         THEN [raised |-> FALSE, dag |-> msgs[i].content]
         ELSE ReverseScan(msgs, i - 1)

\* A load that extends the current log instead of replacing it.
load_conversation_extends(ss, sid, r) ==
    IF r.kind = "exception" THEN ss
    ELSE IF r.status_code # 200 THEN ss
    ELSE IF JsonRaises(r) THEN ss
    ELSE IF ~Truthy(Get(r.body.data, "success")) THEN ss
    ELSE IF "messages" \notin DOMAIN r.body.data THEN ss
    ELSE LET msgs == r.body.data.messages
         IN  [ss EXCEPT !.messages = @ \o msgs,
                        !.session_id = sid,
                        !.active_session = sid,
                        !.generated_dag = ReverseScan(msgs, Len(msgs)).dag]

\* load_conversation(session_id): the four assignments happen before the
\* scan, so an exception raised by the scan is caught with them in place.
load_conversation(ss, sid, r) ==
    IF r.kind = "exception" THEN ss
    ELSE IF r.status_code # 200 THEN ss
    ELSE IF JsonRaises(r) THEN ss
    ELSE IF ~Truthy(Get(r.body.data, "success")) THEN ss
    ELSE IF "messages" \notin DOMAIN r.body.data THEN ss
    ELSE LET msgs == r.body.data.messages
         IN  [ss EXCEPT !.messages = msgs,
                        !.session_id = sid,
                        !.active_session = sid,
                        !.generated_dag = ReverseScan(msgs, Len(msgs)).dag]

\* display_chat_history() reads both keys of every message of the log.
DisplayRaises(msgs) ==
    \E i \in 1..Len(msgs) :
        "message_type" \notin DOMAIN msgs[i] \/ "content" \notin DOMAIN msgs[i]

\* A clear that leaves active_session pointing at the conversation cleared.
clear_chat_keeps_active(ss, u) ==
    [ss EXCEPT !.messages = <<>>,
               !.generated_dag = None,
               !.session_id = u]

\* A clear that forgets to reset the artifact.
clear_chat_keeps_dag(ss, u) ==
    [ss EXCEPT !.messages = <<>>,
               !.active_session = None,
               !.session_id = u]

\* A clear that forgets to draw a new session id.
clear_chat_keeps_id(ss, u) ==
    [ss EXCEPT !.messages = <<>>,
               !.generated_dag = None,
               !.active_session = None]

\* The "Clear Current Chat" branch of main().
clear_chat(ss, u) ==
    [ss EXCEPT !.messages = <<>>,
               !.generated_dag = None,
               !.active_session = None,
               !.session_id = u]

\* f"{feedback}"
Format(v) ==
    CASE v.t = "str" -> v.s
      [] v.t = "num" -> <<ToString(v.n)>>
      [] v.t = "bool" -> IF v.b THEN <<"T", "r", "u", "e">> ELSE <<"F", "a", "l", "s", "e">>
      [] OTHER -> <<"N", "o", "n", "e">>

AppendMessage(ss, m) == [ss EXCEPT !.messages = Append(@, m)]

(***************************************************************************)
(* The state machine.  One run of main() handles one widget event; a chat  *)
(* turn blocks on its two requests, so it is split at the two responses.   *)
(*   pc            where the turn is: idle, validating, generating         *)
(*   user_input, response, dag_response  locals of main()                  *)
(*   sent          the requests the turn has posted                        *)
(*   appended      the message types the turn has appended                 *)
(*   turn_sid      session_id when the turn was submitted                  *)
(*   fault         the last run ended with an uncaught exception           *)
(*   event         the widget event last handled, with the response the    *)
(*                 handler received                                        *)
(***************************************************************************)
Init ==
    /\ session_state = EmptyDict
    /\ uuid_count = 0
    /\ pc = "idle"
    /\ user_input = None
    /\ response = NoResponse
    /\ dag_response = NoResponse
    /\ sent = <<>>
    /\ appended = <<>>
    /\ turn_sid = None
    /\ fault = FALSE
    /\ event = [op |-> "none"]

\* A new run of main() starts with fresh locals.
FreshLocals ==
    /\ pc' = "idle"
    /\ user_input' = None
    /\ response' = NoResponse
    /\ dag_response' = NoResponse
    /\ sent' = <<>>
    /\ appended' = <<>>
    /\ turn_sid' = None

TurnLocals == <<pc, user_input, response, dag_response, sent, appended, turn_sid>>

\* main() with no widget event.
Run ==
    /\ pc = "idle"
    /\ Count0 <= MaxUuid
    /\ session_state' = SS0
    /\ uuid_count' = Count0
    /\ fault' = DisplayRaises(SS0.messages)
    /\ event' = [op |-> "run"]
    /\ FreshLocals

\* main() with "Refresh Conversations" pressed.
Refresh ==
    /\ pc = "idle"
    /\ Count0 <= MaxUuid
    /\ \E r \in ListResponses :
          /\ session_state' = fetch_all_conversations(SS0, r)
          /\ event' = [op |-> "refresh", response |-> r]
    /\ uuid_count' = Count0
    /\ fault' = DisplayRaises(SS0.messages)
    /\ FreshLocals

LoadOp ==
    /\ Initialized
    /\ \E i \in 1..Len(session_state.history), r \in LoadResponses :
          LET sid == session_state.history[i].session_id
          IN  /\ session_state' = load_conversation(session_state, sid, r)
              /\ event' = [op |-> "load", session_id |-> sid, response |-> r]
    /\ UNCHANGED uuid_count

\* main() with the button of a listed conversation pressed.
LoadConversation ==
    /\ pc = "idle"
    /\ LoadOp
    /\ fault' = DisplayRaises(session_state'.messages)
    /\ FreshLocals

ClearOp ==
    /\ Count0 + 1 <= MaxUuid
    /\ session_state' = clear_chat(SS0, uuid4(Count0 + 1))
    /\ uuid_count' = Count0 + 1
    /\ event' = [op |-> "clear"]

\* main() with "Clear Current Chat" pressed.
Clear ==
    /\ pc = "idle"
    /\ ClearOp
    /\ fault' = FALSE
    /\ FreshLocals

\* A submit that already appends a system notice before the validate request
\* has been answered.
SubmitTurn_optimistic ==
    /\ pc = "idle"
    /\ Count0 <= MaxUuid
    /\ ~DisplayRaises(SS0.messages)
    /\ Len(SS0.messages) + 2 <= MaxMsgs
    /\ \E input \in UserInputs :
          /\ session_state' =
                 AppendMessage(AppendMessage(SS0, UserMsg(input)),
                               SystemMsg(BackendErrorNotice))
          /\ user_input' = Str(input)
          /\ sent' = <<[op |-> "validate_input", input |-> Str(input)]>>
    /\ uuid_count' = Count0
    /\ pc' = "validating"
    /\ response' = NoResponse
    /\ dag_response' = NoResponse
    /\ appended' = <<"user", "system">>
    /\ turn_sid' = SS0.session_id
    /\ fault' = FALSE
    /\ event' = [op |-> "chat"]

\* main() with a non-empty chat input: the user message is appended and the
\* validate request is posted.
SubmitTurn ==
    /\ pc = "idle"
    /\ Count0 <= MaxUuid
    /\ ~DisplayRaises(SS0.messages)
    /\ Len(SS0.messages) + 2 <= MaxMsgs
    /\ \E input \in UserInputs :
          /\ session_state' = AppendMessage(SS0, UserMsg(input))
          /\ user_input' = Str(input)
          /\ sent' = <<[op |-> "validate_input", input |-> Str(input)]>>
    /\ uuid_count' = Count0
    /\ pc' = "validating"
    /\ response' = NoResponse
    /\ dag_response' = NoResponse
    /\ appended' = <<"user">>
    /\ turn_sid' = SS0.session_id
    /\ fault' = FALSE
    /\ event' = [op |-> "chat"]

\* A test that takes a missing "valid" for a pass: data.get("valid", True).
ValidationPassed_default(data) ==
    "valid" \notin DOMAIN data \/ Truthy(Get(data, "valid"))

\* if data.get("valid"):
ValidationPassed(data) == Truthy(Get(data, "valid"))

\* A fallback applied only when the key is missing:
\* data.get("feedback", "Invalid input. Please try again.").
FeedbackText_getDefault(data) ==
    IF "feedback" \in DOMAIN data THEN data.feedback ELSE Str(InvalidInputNotice)

\* feedback = data.get("feedback") or "Invalid input. Please try again."
FeedbackText(data) ==
    IF Truthy(Get(data, "feedback")) THEN Get(data, "feedback")
    ELSE Str(InvalidInputNotice)

\* What main() does with the validate response r, as
\* [ss, pc, sent, appended, fault].
AfterValidate(ss, r) ==
    LET stop(s, app, f) ==
            [ss |-> s, pc |-> "idle", sent |-> sent, appended |-> app, fault |-> f]
    IN  IF r.kind = "exception" THEN stop(ss, appended, TRUE)
        ELSE IF r.status_code # 200
             THEN stop(AppendMessage(ss, SystemMsg(BackendErrorNotice)),
                       Append(appended, "system"), FALSE)
        ELSE IF JsonRaises(r) THEN stop(ss, appended, TRUE)
        ELSE IF ValidationPassed(r.body.data)
             THEN [ss |-> ss, pc |-> "generating",
                   sent |-> Append(sent, [op |-> "generate_dag",
                                          input |-> user_input,
                                          session_id |-> ss.session_id]),
                   appended |-> appended, fault |-> FALSE]
        ELSE stop(AppendMessage(ss, SystemMsg(Format(FeedbackText(r.body.data)))),
                  Append(appended, "system"), FALSE)

\* The validate response arrives.
ValidateResponse ==
    /\ pc = "validating"
    /\ \E r \in ValidateResponses :
          LET a == AfterValidate(session_state, r)
          IN  /\ response' = r
              /\ session_state' = a.ss
              /\ pc' = a.pc
              /\ sent' = a.sent
              /\ appended' = a.appended
              /\ fault' = a.fault
    /\ UNCHANGED <<uuid_count, user_input, dag_response, turn_sid, event>>

\* A success branch that appends the script but does not record the artifact.
Generated_noArtifact(ss, dag_script) ==
    AppendMessage(ss, [message_type |-> Str(SystemType), content |-> dag_script])

\* The branch of main() taken on a 200 generate response carrying
\* dag_script: the artifact is set and the script is appended as a system
\* message.
Generated(ss, dag_script) ==
    AppendMessage([ss EXCEPT !.generated_dag = dag_script],
                  [message_type |-> Str(SystemType), content |-> dag_script])

\* A failure branch that also drops the artifact of an earlier turn.
AfterGenerate_failureClears(ss, r) ==
    IF r.kind = "exception" THEN [ss |-> ss, appended |-> appended, fault |-> TRUE]
    ELSE IF r.status_code # 200
         THEN [ss |-> AppendMessage([ss EXCEPT !.generated_dag = None],
                                    SystemMsg(GenerationFailedNotice)),
               appended |-> Append(appended, "system"), fault |-> FALSE]
    ELSE IF JsonRaises(r) THEN [ss |-> ss, appended |-> appended, fault |-> TRUE]
    ELSE IF "dag_script" \notin DOMAIN r.body.data
         THEN [ss |-> ss, appended |-> appended, fault |-> TRUE]
    ELSE [ss |-> Generated(ss, r.body.data.dag_script),
          appended |-> Append(appended, "system"), fault |-> FALSE]

\* What main() does with the generate response r, as [ss, appended, fault].
AfterGenerate(ss, r) ==
    IF r.kind = "exception" THEN [ss |-> ss, appended |-> appended, fault |-> TRUE]
    ELSE IF r.status_code # 200
         THEN [ss |-> AppendMessage(ss, SystemMsg(GenerationFailedNotice)),
               appended |-> Append(appended, "system"), fault |-> FALSE]
    ELSE IF JsonRaises(r) THEN [ss |-> ss, appended |-> appended, fault |-> TRUE]
    ELSE IF "dag_script" \notin DOMAIN r.body.data
         THEN [ss |-> ss, appended |-> appended, fault |-> TRUE]
    ELSE [ss |-> Generated(ss, r.body.data.dag_script),
          appended |-> Append(appended, "system"), fault |-> FALSE]

\* The generate response arrives.
GenerateResponse ==
    /\ pc = "generating"
    /\ \E r \in GenerateResponses :
          LET a == AfterGenerate(session_state, r)
          IN  /\ dag_response' = r
              /\ session_state' = a.ss
              /\ appended' = a.appended
              /\ fault' = a.fault
    /\ pc' = "idle"
    /\ UNCHANGED <<uuid_count, user_input, response, sent, turn_sid, event>>

Next ==
    \/ Run
    \/ Refresh
    \/ LoadConversation
    \/ Clear
    \/ SubmitTurn
    \/ ValidateResponse
    \/ GenerateResponse

\* The host serialises runs: a widget event is handled only once the turn in
\* progress has finished.
Spec == Init /\ [][Next]_vars

\* A sidebar event handled while a request of the turn is still in flight.
ClearInFlight ==
    /\ pc # "idle"
    /\ ClearOp
    /\ UNCHANGED <<TurnLocals, fault>>

LoadInFlight ==
    /\ pc # "idle"
    /\ LoadOp
    /\ UNCHANGED <<TurnLocals, fault>>

NextRace ==
    \/ Next
    \/ ClearInFlight
    \/ LoadInFlight

SpecRace == Init /\ [][NextRace]_vars

TypeOK ==
    /\ pc \in {"idle", "validating", "generating"}
    /\ uuid_count \in 0..MaxUuid
    /\ fault \in BOOLEAN
    /\ Len(appended) <= 2
    /\ Initialized => Len(session_state.messages) <= MaxMsgs

(***************************************************************************)
(* Vocabulary of the properties.                                           *)
(***************************************************************************)
Messages == session_state.messages
Artifact == session_state.generated_dag

IsSystem(m) ==
    /\ "message_type" \in DOMAIN m
    /\ "content" \in DOMAIN m
    /\ m.message_type = Str(SystemType)

\* looksLikeGeneratedCode: a system message whose content contains "def ".
Qualifies(m) == IsSystem(m) /\ Contains(DefMarker, m.content.s)

\* The content of the last qualifying message of a log, None without one.
LatestArtifact(msgs) ==
    LET Q == {i \in 1..Len(msgs) : Qualifies(msgs[i])}
    IN  IF Q = {} THEN None
        ELSE msgs[CHOOSE i \in Q : \A j \in Q : j <= i].content

\* A turn has run to its end (normally or by an uncaught exception).
TurnFinished == pc = "idle" /\ sent # <<>>

IsFailure(r) ==
    \/ r.kind = "exception"
    \/ r.kind = "http" /\ (r.status_code < 200 \/ r.status_code > 299)

HasData(r) == r.kind = "http" /\ r.status_code = 200 /\ r.body.kind = "json"

\* A step that is one run of load_conversation() under Spec.
LoadStep == pc = "idle" /\ pc' = "idle" /\ event'.op = "load"

LoadReturnsLog(r) ==
    /\ HasData(r)
    /\ Truthy(Get(r.body.data, "success"))
    /\ "messages" \in DOMAIN r.body.data

WellFormed(msgs) ==
    \A i \in 1..Len(msgs) :
        "message_type" \in DOMAIN msgs[i] /\ "content" \in DOMAIN msgs[i]

\* A failed load: non-200, success not true, an empty message list, or an
\* exception while the response is handled.
LoadFailed(r) ==
    \/ ~LoadReturnsLog(r)
    \/ r.body.data.messages = <<>>
    \/ ReverseScan(r.body.data.messages, Len(r.body.data.messages)).raised

(***************************************************************************)
(* C1: every submitted turn, whatever the outcome of validate and          *)
(* generate, appends exactly one user message and exactly one system       *)
(* message.  Refuted: an exception raised by requests.post or by json()    *)
(* leaves main() before any system message is appended.                    *)
(***************************************************************************)
C1_ExactlyOneOfEach ==
    TurnFinished => appended = <<"user", "system">>

(***************************************************************************)
(* C2: the artifact, if present, is the content of some system message of  *)
(* the current message log.                                                *)
(***************************************************************************)
C2_ArtifactInLog ==
    (Initialized /\ Artifact # None) =>
        \E i \in 1..Len(Messages) :
            IsSystem(Messages[i]) /\ Messages[i].content = Artifact

\* An artifact found by a load is still in the log after a later turn.
C2_Witness ==
    /\ Initialized
    /\ TurnFinished
    /\ Artifact = Str(ScriptP)
    /\ Len(Messages) = 4
    /\ appended = <<"user", "system">>

(***************************************************************************)
(* C3: once a turn or a load has completed, the artifact is what a reverse *)
(* scan of the current log returns.  Refuted: a rejected turn whose        *)
(* feedback contains "def " appends a qualifying system message without    *)
(* touching the artifact, and a generated script without "def " becomes    *)
(* the artifact although no scan would return it.                          *)
(***************************************************************************)
C3_ArtifactIsRescan ==
    (Initialized /\ pc = "idle") => Artifact = LatestArtifact(Messages)

(***************************************************************************)
(* C4: a response that arrives after a clear or a load changed session_id  *)
(* is discarded: the step that handles it changes nothing in the session.  *)
(* Refuted under SpecRace: main() never compares session ids.              *)
(***************************************************************************)
DispatchSid ==
    IF pc = "generating" THEN sent[Len(sent)].session_id ELSE turn_sid

ClearStep == event'.op = "clear" /\ uuid_count' = Count0 + 1

C5_ClearResets ==
    [][ClearStep =>
          /\ session_state'.messages = <<>>
          /\ session_state'.generated_dag = None
          /\ session_state'.active_session = None
          /\ session_state'.session_id # SS0.session_id]_vars

\* The second of two consecutive clears.
C5_Witness ==
    /\ event.op = "clear"
    /\ uuid_count = 3
    /\ session_state.session_id = uuid4(3)
    /\ Messages = <<>>
    /\ Artifact = None

(***************************************************************************)
(* C6 as written: a generate request is sent only after a validate         *)
(* response whose valid is the boolean true.  Refuted: the test is Python  *)
(* truthiness, so valid = 1 also passes.                                   *)
(***************************************************************************)
C6_GenerateOnlyIfValidTrue ==
    \A i \in 1..Len(sent) :
        sent[i].op = "generate_dag" =>
            /\ HasData(response)
            /\ Get(response.body.data, "valid") = Bool(TRUE)

(***************************************************************************)
(* C6 amended: a generate request is sent at most once in a turn, only     *)
(* after the validate response has been received, and only when that       *)
(* response has status 200 and a truthy valid.                             *)
(***************************************************************************)
C6_GenerateOnlyIfTruthy ==
    \A i \in 1..Len(sent) :
        sent[i].op = "generate_dag" =>
            /\ i = 2
            /\ sent[1].op = "validate_input"
            /\ HasData(response)
            /\ Truthy(Get(response.body.data, "valid"))

\* A generate request sent on valid = 1.
C6_Witness ==
    /\ Len(sent) = 2
    /\ sent[2].op = "generate_dag"
    /\ HasData(response)
    /\ response.body.data.valid = Num(1)

(***************************************************************************)
(* C7: a failed remote call of a turn (network exception or non-2xx, on    *)
(* validate or generate) ends as one appended system message and never as  *)
(* an uncaught exception.  Refuted: neither requests.post is inside a try. *)
(***************************************************************************)
C7_FailuresCaught ==
    (TurnFinished /\ (IsFailure(response) \/ IsFailure(dag_response))) =>
        /\ ~fault
        /\ Len(appended) = 2
        /\ appended[2] = "system"

(***************************************************************************)
(* C8: a failed load leaves the session state unchanged.  Refuted: a 200   *)
(* response with success and an empty list replaces the session, and an    *)
(* exception raised by the scan is caught after the four assignments.      *)
(***************************************************************************)
C8_FailedLoadNoChange ==
    [][(LoadStep /\ LoadFailed(event'.response))
          => session_state' = session_state]_vars

(***************************************************************************)
(* C9: a successful load sets the artifact to the content of the last      *)
(* system message of the returned log that contains "def ", and to None    *)
(* when no message qualifies.                                              *)
(***************************************************************************)
C9_LoadExtractsLatest ==
    [][(LoadStep /\ LoadReturnsLog(event'.response)
                 /\ WellFormed(event'.response.body.data.messages))
          => /\ session_state'.messages = event'.response.body.data.messages
             /\ session_state'.generated_dag =
                    LatestArtifact(event'.response.body.data.messages)]_vars

\* The load of a log with a script followed by two user messages.
C9_Witness ==
    /\ event.op = "load"
    /\ pc = "idle"
    /\ Messages = <<SystemMsg(ScriptP), UserMsg(TextHi), UserMsg(TextDefG)>>
    /\ Artifact = Str(ScriptP)

\* The load of a log with two scripts: the later one is the artifact.
C9_WitnessTwo ==
    /\ event.op = "load"
    /\ Messages = <<SystemMsg(ScriptDef), SystemMsg(ScriptP)>>
    /\ Artifact = Str(ScriptP)

(***************************************************************************)
(* C10: in the GENERATED outcome the one message appended is a system      *)
(* message whose content is the returned script, and the artifact is that  *)
(* same text.                                                              *)
(***************************************************************************)
GeneratedStep ==
    /\ pc = "generating"
    /\ pc' = "idle"
    /\ HasData(dag_response')
    /\ "dag_script" \in DOMAIN dag_response'.body.data

C10_GeneratedRecorded ==
    [][GeneratedStep =>
          LET script == dag_response'.body.data.dag_script
          IN  /\ session_state'.messages =
                     Append(session_state.messages,
                            [message_type |-> Str(SystemType), content |-> script])
              /\ session_state'.generated_dag = script]_vars

\* A finished turn whose script replaced the artifact.
C10_Witness ==
    /\ TurnFinished
    /\ HasData(dag_response)
    /\ dag_response.body.data = [dag_script |-> Str(ScriptPlain)]
    /\ Artifact = Str(ScriptPlain)
    /\ Messages[Len(Messages)] = SystemMsg(ScriptPlain)

(***************************************************************************)
(* C11: in the REJECTED outcome (validate answers 200 with valid false)    *)
(* the one message appended is a system message whose content is the       *)
(* feedback text of the response when it is present and non-empty, and     *)
(* "Invalid input. Please try again." otherwise.                           *)
(***************************************************************************)
RejectedStep ==
    /\ pc = "validating"
    /\ pc' = "idle"
    /\ HasData(response')
    /\ Get(response'.body.data, "valid") = Bool(FALSE)

ExpectedFeedback(data) ==
    IF "feedback" \in DOMAIN data /\ data.feedback.t = "str" /\ data.feedback.s # <<>>
    THEN data.feedback.s
    ELSE InvalidInputNotice

C11_RejectedFeedback ==
    [][RejectedStep =>
          session_state'.messages =
              Append(session_state.messages,
                     SystemMsg(ExpectedFeedback(response'.body.data)))]_vars

\* A rejected turn whose response carried an empty feedback text.
C11_Witness ==
    /\ TurnFinished
    /\ HasData(response)
    /\ response.body.data = [valid |-> Bool(FALSE), feedback |-> Str(<<>>)]
    /\ Messages[Len(Messages)] = SystemMsg(InvalidInputNotice)

\* A rejected turn whose response carried a feedback text.
C11_WitnessText ==
    /\ TurnFinished
    /\ HasData(response)
    /\ response.body.data = [valid |-> Bool(FALSE), feedback |-> Str(TextNo)]
    /\ Messages[Len(Messages)] = SystemMsg(TextNo)

(***************************************************************************)
(* C12: a step of a turn changes the artifact only in the GENERATED        *)
(* outcome; a failed validation, a rejection and a failed generation leave *)
(* it as it was before the turn.                                           *)
(***************************************************************************)
TurnStep == pc # "idle" /\ pc' # pc

C12_ArtifactFrame ==
    [][/\ (pc = "idle" /\ pc' = "validating") =>
              session_state'.generated_dag = SS0.generated_dag
       /\ (TurnStep /\ ~GeneratedStep) =>
              session_state'.generated_dag = session_state.generated_dag]_vars

\* A failed generation in a session whose artifact came from a load.
C12_Witness ==
    /\ TurnFinished
    /\ dag_response = Http(500, Malformed)
    /\ Artifact = Str(ScriptP)
    /\ Messages[Len(Messages)] = SystemMsg(GenerationFailedNotice)

(***************************************************************************)
(* C13 as written: while the validate request of a turn is unanswered the  *)
(* turn has appended no message.  Refuted: the user message is appended    *)
(* before the request is even posted.                                      *)
(***************************************************************************)
C13_NothingBeforeResponse ==
    (pc = "validating" /\ response = NoResponse) => appended = <<>>

(***************************************************************************)
(* C13 amended: the system message of a turn is appended, and the artifact *)
(* is set, only in a step that receives the response of the turn's remote  *)
(* call; while the validate request is unanswered the turn has appended    *)
(* its user message and nothing else.                                      *)
(***************************************************************************)
ResponseArrives ==
    \/ pc = "validating" /\ response' # NoResponse
    \/ pc = "generating" /\ dag_response' # NoResponse

SystemAppended ==
    /\ Len(appended') > Len(appended)
    /\ appended'[Len(appended')] = "system"

C13_SystemAfterResponse ==
    [][/\ pc' = "validating" => (appended' = <<"user">> /\ response' = NoResponse)
       /\ SystemAppended => ResponseArrives
       /\ (pc # "idle" /\ session_state'.generated_dag # session_state.generated_dag)
              => (pc = "generating" /\ dag_response' # NoResponse)]_vars

\* A turn waiting for its validate response, its user message already in
\* the log.
C13_Witness ==
    /\ pc = "validating"
    /\ response = NoResponse
    /\ appended = <<"user">>
    /\ Messages[Len(Messages)] = UserMsg(TextDefG)

(***************************************************************************)
(* C14: after any sequence of init, turns, loads and clears, session_id is *)
(* a non-empty string.  Refuted: load_conversation() stores the id of the  *)
(* listed conversation as it came from the store, and the store may list   *)
(* an empty one.                                                           *)
(***************************************************************************)
C14_SessionIdNeverEmpty ==
    Initialized =>
        /\ session_state.session_id.t = "str"
        /\ session_state.session_id.s # <<>>

(***************************************************************************)
(* C15: a load is idempotent: in the state a load has produced, loading    *)
(* the same session id with the same response again changes no field of    *)
(* the session.                                                            *)
(***************************************************************************)
C15_LoadIdempotent ==
    (Initialized /\ pc = "idle" /\ event.op = "load") =>
        load_conversation(session_state, event.session_id, event.response)
            = session_state

\* The state a successful load of conversation "a" has produced.
C15_Witness ==
    /\ pc = "idle"
    /\ event.op = "load"
    /\ LoadReturnsLog(event.response)
    /\ event.session_id = IdA
    /\ session_state.session_id = IdA
    /\ session_state.active_session = IdA
    /\ Messages = <<SystemMsg(ScriptP), SystemMsg(TextNo)>>
    /\ Artifact = Str(ScriptP)

(***************************************************************************)
(* C16: init is idempotent and non-destructive: a run of main() without a  *)
(* widget event changes no session field of an initialized session, and on *)
(* an uninitialized one it establishes a session_id, an empty message log, *)
(* an empty conversation list, no active_session and no artifact.          *)
(***************************************************************************)
C16_InitIdempotent ==
    [][(pc = "idle" /\ event'.op = "run") =>
          IF Initialized
          THEN session_state' = session_state
          ELSE /\ session_state' = [session_id |-> uuid4(uuid_count + 1),
                                    messages |-> <<>>,
                                    history |-> <<>>,
                                    active_session |-> None,
                                    generated_dag |-> None]
               /\ session_state'.session_id.s # <<>>]_vars

\* A run without event in a session that holds a turn and its artifact.
C16_Witness ==
    /\ event.op = "run"
    /\ Initialized
    /\ Len(Messages) = 2
    /\ Artifact = Str(ScriptDef)
    /\ Messages[2] = SystemMsg(ScriptDef)

(***************************************************************************)
(* C17: a failed list fetch (non-200, success false, or an exception)      *)
(* leaves the cached conversation list unchanged, and a list fetch of any  *)
(* outcome changes no other field of the session.                          *)
(***************************************************************************)
ListFailed(r) ==
    \/ ~HasData(r)
    \/ ~Truthy(Get(r.body.data, "success"))
    \/ "conversations" \notin DOMAIN r.body.data

RefreshStep == pc = "idle" /\ event'.op = "refresh"

C17_RefreshFrame ==
    [][RefreshStep =>
          /\ session_state'.messages = SS0.messages
          /\ session_state'.session_id = SS0.session_id
          /\ session_state'.active_session = SS0.active_session
          /\ session_state'.generated_dag = SS0.generated_dag
          /\ ListFailed(event'.response) =>
                 session_state'.history = SS0.history]_vars

\* A failed fetch in a session that had a list cached.
C17_Witness ==
    /\ event.op = "refresh"
    /\ event.response = Http(500, Malformed)
    /\ Initialized
    /\ Len(session_state.history) = 2

(***************************************************************************)
(* C18: between clears and loads the message log is append-only: a turn    *)
(* keeps the previous log as a prefix, appends its user message when it is *)
(* submitted and, when it ends, its system message right after it; nothing *)
(* is reordered, removed or deduplicated.  Refuted: a turn ended by an     *)
(* uncaught exception (see C1) appends no system message, so its user      *)
(* message is followed by nothing, or by the next turn's user message.     *)
(***************************************************************************)
C18_AppendOnly ==
    [][/\ (pc = "idle" /\ pc' = "validating") =>
              session_state'.messages =
                  Append(SS0.messages, UserMsg(user_input'.s))
       /\ (pc = "validating" /\ pc' = "generating") =>
              session_state'.messages = session_state.messages
       /\ (pc # "idle" /\ pc' = "idle") =>
              /\ Len(session_state'.messages) = Len(session_state.messages) + 1
              /\ SubSeq(session_state'.messages, 1, Len(session_state.messages))
                     = session_state.messages
              /\ IsSystem(session_state'.messages[Len(session_state'.messages)])
              /\ session_state.messages[Len(session_state.messages)]
                     = UserMsg(user_input.s)]_vars

(***************************************************************************)
(* C19: active_session is either None or equal to session_id; user turns   *)
(* and list fetches change neither of the two.                             *)
(***************************************************************************)
SameIdentity(a, b) ==
    a.session_id = b.session_id /\ a.active_session = b.active_session

C19_ActiveIsCurrent ==
    [][/\ ("session_id" \in DOMAIN session_state') =>
              \/ session_state'.active_session = None
              \/ session_state'.active_session = session_state'.session_id
       /\ (RefreshStep \/ (pc = "idle" /\ pc' = "validating")) =>
              SameIdentity(session_state', SS0)
       /\ TurnStep => SameIdentity(session_state', session_state)]_vars

\* A turn finished in a loaded conversation.
C19_Witness ==
    /\ TurnFinished
    /\ session_state.active_session = IdA
    /\ session_state.session_id = IdA
    /\ Len(Messages) = 3

\* A clear after a load: a new session_id and no active_session.
C19_WitnessCleared ==
    /\ event.op = "clear"
    /\ session_state.active_session = None
    /\ session_state.session_id = uuid4(2)
    /\ Len(session_state.history) = 2

====
